---- MODULE Spec2Model ----
(***************************************************************************)
(* astroprobe.py: the plate-solve result pipeline of astro-tools.          *)
(*                                                                         *)
(* solve_image() creates a temporary directory, builds the solve-field     *)
(* argument vector, reads the FITS header, runs the solver, cleans the     *)
(* directory up and reconciles the solver's text with the header into one  *)
(* record; main() does that for every input file in turn (or parses the    *)
(* file itself under --test-file), keeps the records its policy selects    *)
(* and writes them out.                                                    *)
(*                                                                         *)
(* A text is a sequence of lines; a line is a record [k, n, s] with k the  *)
(* sentence template it is an instance of, n the numbers and s the name a  *)
(* pattern captures from it.  A Python str that the code edits character   *)
(* by character (an option name) is a sequence of one-character strings.   *)
(* A dict is a function from its keys.  An exception that leaves a         *)
(* function is the variable exc and pc = "crashed".                        *)
(***************************************************************************)
EXTENDS Integers, Sequences, FiniteSets, TLC

VARIABLES
    verbose,        \* args.verbose (count of -v)
    test_file,      \* args.test_file
    save_temps,     \* args.save_temps
    files,          \* args.files
    idx,            \* position in args.files of the file being processed
    pc,             \* where the program is
    kwargs,         \* solve_image's **kwargs of the current call
    wd,             \* solve_image's wd
    solver_args,    \* solve_image's solver_args
    fits_header,    \* solve_image's fits_header
    solver_out,     \* solve_image's solver_out
    solve_res,      \* main's solve_res / the value solve_image returned
    solver_results, \* main's solver_results
    tmpdirs,        \* the file system under /tmp: directory name -> its entries
    launched,       \* per input position: what became of run()
    output,         \* the file args.output
    exc             \* the exception that escaped, if any

vars == <<verbose, test_file, save_temps, files, idx, pc, kwargs, wd, solver_args,
          fits_header, solver_out, solve_res, solver_results, tmpdirs, launched,
          output, exc>>

----------------------------------------------------------------------------
(* Bounds *)

MaxFiles == 3
MaxVerbose == 3
MaxLines == 4
MaxOpts == 2

----------------------------------------------------------------------------
(* Python values *)

NoneValue == [t |-> "none", b |-> FALSE, n |-> 0, s |-> <<>>]
PyBool(b) == [t |-> "bool", b |-> b, n |-> 0, s |-> <<>>]
PyInt(n) == [t |-> "int", b |-> FALSE, n |-> n, s |-> <<>>]
PyStr(s) == [t |-> "str", b |-> FALSE, n |-> 0, s |-> s]

Digit(d) == <<"0", "1", "2", "3", "4", "5", "6", "7", "8", "9">>[d + 1]

RECURSIVE IntStr(_)
IntStr(n) == IF n < 10 THEN <<Digit(n)>> ELSE IntStr(n \div 10) \o <<Digit(n % 10)>>

\* str(v)
Str(v) ==
    CASE v.t = "bool" -> IF v.b THEN <<"T", "r", "u", "e">> ELSE <<"F", "a", "l", "s", "e">>
      [] v.t = "int" -> IntStr(v.n)
      [] v.t = "str" -> v.s
      [] OTHER -> <<"N", "o", "n", "e">>

\* truthiness, as in "if v:"
IsTruthy(v) == (v.t = "bool" /\ v.b) \/ (v.t = "int" /\ v.n # 0) \/ (v.t = "str" /\ v.s # <<>>)

\* v is True
IsTrue(v) == v.t = "bool" /\ v.b

----------------------------------------------------------------------------
(* solve_image: the argument vector (lines 87-98) *)

SolveField == <<"s", "o", "l", "v", "e", "-", "f", "i", "e", "l", "d">>
DirFlag == <<"-", "-", "d", "i", "r">>
TempDirFlag == <<"-", "-", "t", "e", "m", "p", "-", "d", "i", "r">>

\* k.replace("_", "-")
Replace(k) == [i \in 1..Len(k) |-> IF k[i] = "_" THEN "-" ELSE k[i]]

\* d = "-" if len(k) == 1 else "--"
Dashes(k) == IF Len(k) = 1 THEN <<"-">> ELSE <<"-", "-">>

\* the body of the loop over kwargs.items(): what one option appends
OptionArgs(k0, v) ==
    LET k == Replace(k0)
        d == Dashes(k)
    IN IF IsTrue(v) THEN <<d \o k>> ELSE <<d \o k, Str(v)>>

RECURSIVE AllOptionArgs(_)
AllOptionArgs(kw) ==
    IF kw = <<>> THEN <<>>
    ELSE OptionArgs(Head(kw).k, Head(kw).v) \o AllOptionArgs(Tail(kw))

SolverArgs(w, kw, img) ==
    <<SolveField, DirFlag, w, TempDirFlag, w>> \o AllOptionArgs(kw) \o <<img>>

\* mkdtemp(prefix="astrometry_", dir="/tmp"): a name no earlier call was given
WdName(i) == <<"w", "d">> \o IntStr(i)

\* args.files[i - 1]
FileName(i) == <<"f">> \o IntStr(i)

\* main's call: solve_image(f, save_temps=..., solver_debug=..., guess_scale=True)
MainKwargs ==
    <<[k |-> <<"g", "u", "e", "s", "s", "_", "s", "c", "a", "l", "e">>, v |-> PyBool(TRUE)]>>

----------------------------------------------------------------------------
(* solve_image: the header summary (lines 99-102, 124-137) *)

HdrKeys == {"RA", "DEC", "OBJECT", "NAXIS1", "NAXIS2", "SECPIX1", "SECPIX2"}

EmptyDict == [k \in {} |-> NoneValue]

IsNum(v) == v.t = "int"

\* round(naxis * secpix / 3600, 6), in millionths of a degree
Round6(naxis, secpix) == (naxis * secpix * 2500 * 2 + 9) \div 18

\* a summary that looks OBJECT up like the other keys
HdrOutcomeObjectRequired(h) ==
    IF {"DEC", "RA", "OBJECT", "NAXIS1", "SECPIX1"} \ DOMAIN h # {} THEN "KeyError"
    ELSE IF ~(h["NAXIS1"].t = "int" /\ h["SECPIX1"].t = "int") THEN "TypeError"
    ELSE IF {"NAXIS2", "SECPIX2"} \ DOMAIN h # {} THEN "KeyError"
    ELSE IF ~(h["NAXIS2"].t = "int" /\ h["SECPIX2"].t = "int") THEN "TypeError"
    ELSE "ok"

\* How the evaluation of the dict literal of lines 125-135 ends: the lookups
\* and the products are evaluated in the order they are written.
HdrOutcome(h) ==
    IF "DEC" \notin DOMAIN h THEN "KeyError"
    ELSE IF "RA" \notin DOMAIN h THEN "KeyError"
    ELSE IF "NAXIS1" \notin DOMAIN h THEN "KeyError"
    ELSE IF "SECPIX1" \notin DOMAIN h THEN "KeyError"
    ELSE IF ~(IsNum(h["NAXIS1"]) /\ IsNum(h["SECPIX1"])) THEN "TypeError"
    ELSE IF "NAXIS2" \notin DOMAIN h THEN "KeyError"
    ELSE IF "SECPIX2" \notin DOMAIN h THEN "KeyError"
    ELSE IF ~(IsNum(h["NAXIS2"]) /\ IsNum(h["SECPIX2"])) THEN "TypeError"
    ELSE "ok"

HdrValue(h) ==
    [loc |-> [dec |-> h["DEC"], ra |-> h["RA"]],
     obj |-> IF "OBJECT" \in DOMAIN h THEN h["OBJECT"] ELSE PyStr(<<>>),
     fov |-> <<Round6(h["NAXIS1"].n, h["SECPIX1"].n),
               Round6(h["NAXIS2"].n, h["SECPIX2"].n)>>]

----------------------------------------------------------------------------
(* parse_buf (lines 50-64) and the patterns of solve_image *)

Line(k, n, s) == [k |-> k, n |-> n, s |-> s]

\* "Field size: 1.5 x 1.2 degrees" (numbers in tenths)
SizeLine == Line("size", <<15, 12>>, "")
\* "Field center: (RA,Dec) = (10.5, -20.2) deg."
CenterLine == Line("center", <<105, -202>>, "")
\* "Field 1: pixel scale 1.2 arcsec/pix."
ScaleLine == Line("scale", <<12>>, "")
\* "Did not solve (or no WCS file was written)."
MarkerLine == Line("marker", <<>>, "")
\* "simplexy: found 42 sources."
SimplexyLine == Line("simplexy", <<42>>, "")
\* "The star Polaris"
StarLine == Line("star", <<>>, "Polaris")
\* "Your field contains: the constellation Ursa Minor"
ConstellationLine == Line("constellation", <<>>, "Ursa Minor")
\* "Field 1: solved with index index-4107.littleendian.fits."
IndexLine == Line("index", <<>>, "4107")

\* re.search(pattern, b) is not None
Has(b, k) == \E i \in 1..Len(b) : b[i].k = k

\* re.search(pattern, b): the first match
Search(b, k) == b[CHOOSE i \in 1..Len(b) : b[i].k = k /\ \A j \in 1..(i - 1) : b[j].k # k]

\* re.findall(pattern, b): the captured names, in order of appearance
FindAll(b, k) ==
    LET m == SelectSeq(b, LAMBDA l : l.k = k)
    IN [i \in 1..Len(m) |-> m[i].s]

\* parse_buf raises AttributeError (None has no groups/group) unless the three
\* searches of lines 52, 53 and 55 all match
ParseRaises(b) == ~(Has(b, "size") /\ Has(b, "center") /\ Has(b, "scale"))

\* a parser that leaves a list out when nothing matched
ParseBufSparse(b) ==
    ("fov" :> Search(b, "size").n)
    @@ ("field_center" :> [ra |-> Search(b, "center").n[1], dec |-> Search(b, "center").n[2]])
    @@ ("arcsec_pp" :> Search(b, "scale").n[1])
    @@ (IF Has(b, "constellation") THEN ("constellations" :> FindAll(b, "constellation")) ELSE EmptyDict)
    @@ (IF Has(b, "star") THEN ("stars" :> FindAll(b, "star")) ELSE EmptyDict)
    @@ (IF Has(b, "ic") THEN ("ic" :> FindAll(b, "ic")) ELSE EmptyDict)
    @@ (IF Has(b, "ngc") THEN ("ngc" :> FindAll(b, "ngc")) ELSE EmptyDict)
    @@ (IF Has(b, "index") THEN ("index" :> Search(b, "index").s) ELSE EmptyDict)

ParseBuf(b) ==
    ("fov" :> Search(b, "size").n)
    @@ ("field_center" :> [ra |-> Search(b, "center").n[1], dec |-> Search(b, "center").n[2]])
    @@ ("arcsec_pp" :> Search(b, "scale").n[1])
    @@ ("constellations" :> FindAll(b, "constellation"))
    @@ ("stars" :> FindAll(b, "star"))
    @@ ("ic" :> FindAll(b, "ic"))
    @@ ("ngc" :> FindAll(b, "ngc"))
    @@ (IF Has(b, "index") THEN ("index" :> Search(b, "index").s) ELSE EmptyDict)

\* solver_out.startswith("Did not solve")
DidNotSolveAtStart(b) == Len(b) > 0 /\ b[1].k = "marker"

\* "Did not solve" in solver_out
DidNotSolve(b) == Has(b, "marker")

\* dict.update: the keys of new replace those of old
Update(old, new) == new @@ old

\* lines 118-147 when no exception is raised
SolveImageResult(img, h, b) ==
    LET rv0 == ("file" :> img) @@ ("solve_time" :> "round(t2 - t1, 3)") @@ ("solved" :> FALSE)
        rv1 == IF HdrOutcome(h) = "ok" THEN Update(rv0, "hdr" :> HdrValue(h)) ELSE rv0
        rv2 == IF Has(b, "simplexy")
               THEN Update(rv1, "sources" :> Search(b, "simplexy").n[1]) ELSE rv1
    IN IF DidNotSolve(b) THEN rv2
       ELSE Update(Update(rv2, "solved" :> TRUE), ParseBuf(b))

\* the exception lines 118-147 raise, or "none"
SolveImageRaises(h, b) ==
    IF HdrOutcome(h) = "TypeError" THEN "TypeError"
    ELSE IF ~DidNotSolve(b) /\ ParseRaises(b) THEN "AttributeError"
    ELSE "none"

----------------------------------------------------------------------------
(* rm_rf (lines 37-47) *)

Entry(name, kind) == [name |-> name, kind |-> kind]

SolverTxt == <<"s", "o", "l", "v", "e", "r", ".", "t", "x", "t">>

\* unlink(pjoin(d, f)) succeeds on a file; on a directory it raises OSError,
\* which the loop swallows, and the entry stays
Unlinked(entries) == {e \in entries : e.kind # "file"}

\* removedirs(d) removes d only when it is empty; OSError is swallowed
RmRf(fs, d) ==
    IF Unlinked(fs[d]) = {}
    THEN [x \in DOMAIN fs \ {d} |-> fs[x]]
    ELSE [fs EXCEPT ![d] = Unlinked(fs[d])]

----------------------------------------------------------------------------
(* main: the inclusion policy (line 172) *)

\* a policy that keeps every record as soon as -v is given
IncludePolicyAnyVerbose(res, v) == res["solved"] \/ v > 0

IncludePolicy(res, v) == res["solved"] \/ v > 1

\* a collection that puts the newest record first
CollectFirst(rs, r) == <<r>> \o rs

\* solver_results.append(solve_res) (line 173)
Collect(rs, r) == Append(rs, r)

----------------------------------------------------------------------------
(* Inputs *)

\* option names and values a caller may pass as **kwargs
OptNames ==
    {<<"L">>, <<"r", "a">>, <<"c", "p", "u", "l", "i", "m", "i", "t">>,
     <<"n", "o", "_", "p", "l", "o", "t", "s">>}
OptValues == {PyBool(TRUE), PyBool(FALSE), PyInt(2), PyInt(10), PyStr(<<"1", ".", "5">>)}

\* keyword dicts of at most n options, in insertion order, no name twice
KwargSets(n) ==
    UNION {{kw \in [1..m -> [k : OptNames, v : OptValues]] :
              \A i, j \in 1..m : i # j => kw[i].k # kw[j].k} : m \in 0..n}

\* what fitsio.read_header gives for a key
HeaderValue(k) ==
    CASE k = "OBJECT" -> PyStr(<<"M", "3", "1">>)
      [] k = "NAXIS1" -> PyInt(4000)
      [] k = "NAXIS2" -> PyInt(3000)
      [] k = "RA" -> PyInt(10)
      [] k = "DEC" -> PyInt(41)
      [] OTHER -> PyInt(1)

\* headers holding any subset of the keys, SECPIX1 a number or a string card
AllHeaders ==
    {[k \in S |-> HeaderValue(k)] : S \in SUBSET HdrKeys}
    \cup {[k \in S \cup {"SECPIX1"} |->
             IF k = "SECPIX1" THEN PyStr(<<"1", ".", "0">>) ELSE HeaderValue(k)] :
          S \in SUBSET HdrKeys}

FullHeader == [k \in HdrKeys |-> HeaderValue(k)]
HeaderSamples == {FullHeader}

\* texts of at most n lines over the lines L
Texts(L, n) == UNION {[1..m -> L] : m \in 0..n}

ReportLines == {SizeLine, CenterLine, ScaleLine, MarkerLine, SimplexyLine, StarLine, IndexLine}

SolvedText == <<SimplexyLine, SizeLine, CenterLine, ScaleLine, StarLine, ConstellationLine, IndexLine>>
FailedText == <<SimplexyLine, MarkerLine>>
TextSamples ==
    {SolvedText, FailedText, <<SizeLine, CenterLine, ScaleLine, MarkerLine>>,
     <<SimplexyLine, SizeLine, CenterLine>>}

\* what the solver may leave in its working directory
LeftoverSamples ==
    {{}, {Entry(<<"f", "1", ".", "a", "x", "y">>, "file"), Entry(<<"t", "m", "p">>, "dir")}}

NoResult == EmptyDict

----------------------------------------------------------------------------
(* solve_image, step by step *)

\* lines 87-98
BuildCommand ==
    /\ pc = "mkdtemp"
    /\ wd' = WdName(idx)
    /\ tmpdirs' = (WdName(idx) :> {}) @@ tmpdirs
    /\ solver_args' = SolverArgs(WdName(idx), kwargs, files[idx])
    /\ pc' = "header"
    /\ UNCHANGED <<verbose, test_file, save_temps, files, idx, kwargs, fits_header,
                   solver_out, solve_res, solver_results, launched, output, exc>>

\* lines 99-102: the header, or dict() on OSError
ReadHeader(HS) ==
    /\ pc = "header"
    /\ \/ \E h \in HS : fits_header' = h
       \/ fits_header' = EmptyDict
    /\ pc' = "run"
    /\ UNCHANGED <<verbose, test_file, save_temps, files, idx, kwargs, wd, solver_args,
                   solver_out, solve_res, solver_results, tmpdirs, launched, output, exc>>

\* lines 104-107: run() gives the solver's stdout, or raises when the program
\* cannot be started
RunSolver(TS, LS) ==
    /\ pc = "run"
    /\ launched' = [launched EXCEPT ![idx] = @ + 1]
    /\ \/ /\ \E b \in TS : solver_out' = b
          /\ \E l \in LS : tmpdirs' = [tmpdirs EXCEPT ![wd] = l]
          /\ pc' = "cleanup"
          /\ exc' = exc
       \/ /\ exc' = "FileNotFoundError"
          /\ pc' = "crashed"
          /\ UNCHANGED <<solver_out, tmpdirs>>
    /\ UNCHANGED <<verbose, test_file, save_temps, files, idx, kwargs, wd, solver_args,
                   fits_header, solve_res, solver_results, output>>

\* lines 108-112
Cleanup ==
    /\ pc = "cleanup"
    /\ tmpdirs' = IF save_temps
                  THEN [tmpdirs EXCEPT ![wd] = @ \cup {Entry(SolverTxt, "file")}]
                  ELSE RmRf(tmpdirs, wd)
    /\ pc' = "reconcile"
    /\ UNCHANGED <<verbose, test_file, save_temps, files, idx, kwargs, wd, solver_args,
                   fits_header, solver_out, solve_res, solver_results, launched, output, exc>>

\* lines 117-147
Reconcile ==
    /\ pc = "reconcile"
    /\ IF SolveImageRaises(fits_header, solver_out) = "none"
       THEN /\ solve_res' = SolveImageResult(files[idx], fits_header, solver_out)
            /\ pc' = "ret"
            /\ exc' = exc
       ELSE /\ exc' = SolveImageRaises(fits_header, solver_out)
            /\ pc' = "crashed"
            /\ solve_res' = solve_res
    /\ UNCHANGED <<verbose, test_file, save_temps, files, idx, kwargs, wd, solver_args,
                   fits_header, solver_out, solver_results, tmpdirs, launched, output>>

SolveImage(HS, TS, LS) ==
    \/ BuildCommand
    \/ ReadHeader(HS)
    \/ RunSolver(TS, LS)
    \/ Cleanup
    \/ Reconcile

----------------------------------------------------------------------------
(* main (lines 150-176) *)

\* line 159: the next file of args.files, or the end of the loop
LoopNext ==
    /\ pc = "loop"
    /\ IF idx < Len(files)
       THEN /\ idx' = idx + 1
            /\ solve_res' = NoResult
            /\ pc' = IF test_file THEN "testfile" ELSE "mkdtemp"
       ELSE /\ pc' = "write"
            /\ UNCHANGED <<idx, solve_res>>
    /\ UNCHANGED <<verbose, test_file, save_temps, files, kwargs, wd, solver_args, fits_header,
                   solver_out, solver_results, tmpdirs, launched, output, exc>>

\* lines 161-165: the file's content parsed as a transcript
TestFileParse(TS) ==
    /\ pc = "testfile"
    /\ \/ \E b \in TS :
            IF ParseRaises(b)
            THEN /\ exc' = "AttributeError"
                 /\ pc' = "crashed"
                 /\ solve_res' = solve_res
            ELSE /\ solve_res' = Update(Update(ParseBuf(b), "file" :> files[idx]),
                                        "solve_time" :> "0.0")
                 /\ pc' = "ret"
                 /\ exc' = exc
       \/ /\ exc' = "OSError"
          /\ pc' = "crashed"
          /\ solve_res' = solve_res
    /\ UNCHANGED <<verbose, test_file, save_temps, files, idx, kwargs, wd, solver_args,
                   fits_header, solver_out, solver_results, tmpdirs, launched, output>>

\* lines 169-173
Include ==
    /\ pc = "ret"
    /\ IF "solved" \notin DOMAIN solve_res
       THEN /\ exc' = "KeyError"
            /\ pc' = "crashed"
            /\ solver_results' = solver_results
       ELSE /\ solver_results' = IF IncludePolicy(solve_res, verbose)
                                 THEN Collect(solver_results, solve_res)
                                 ELSE solver_results
            /\ pc' = "loop"
            /\ exc' = exc
    /\ UNCHANGED <<verbose, test_file, save_temps, files, idx, kwargs, wd, solver_args,
                   fits_header, solver_out, solve_res, tmpdirs, launched, output>>

\* lines 175-176
WriteOutput ==
    /\ pc = "write"
    /\ output' = [written |-> TRUE, records |-> solver_results]
    /\ pc' = "done"
    /\ UNCHANGED <<verbose, test_file, save_temps, files, idx, kwargs, wd, solver_args,
                   fits_header, solver_out, solve_res, solver_results, tmpdirs, launched, exc>>

----------------------------------------------------------------------------
(* Specifications *)

InitCommon ==
    /\ wd = <<>>
    /\ solver_args = <<>>
    /\ fits_header = EmptyDict
    /\ solver_out = <<>>
    /\ solve_res = NoResult
    /\ solver_results = <<>>
    /\ tmpdirs = EmptyDict
    /\ launched = [i \in 1..Len(files) |-> 0]
    /\ output = [written |-> FALSE, records |-> <<>>]
    /\ exc = "none"

\* the program run from the command line
Init ==
    /\ verbose \in 0..MaxVerbose
    /\ test_file \in BOOLEAN
    /\ save_temps \in BOOLEAN
    /\ files \in {[i \in 1..n |-> FileName(i)] : n \in 1..MaxFiles}
    /\ idx = 0
    /\ pc = "loop"
    /\ kwargs = MainKwargs
    /\ InitCommon

Next ==
    \/ LoopNext
    \/ SolveImage(HeaderSamples, TextSamples, LeftoverSamples)
    \/ TestFileParse(TextSamples)
    \/ Include
    \/ WriteOutput

Spec == Init /\ [][Next]_vars

\* one call of solve_image(img, save_temps, **kwargs) with the keywords KW
InitCall(KW) ==
    /\ verbose = 0
    /\ test_file = FALSE
    /\ save_temps \in BOOLEAN
    /\ files = <<FileName(1)>>
    /\ idx = 1
    /\ pc = "mkdtemp"
    /\ kwargs \in KW
    /\ InitCommon

\* solve_image called with any keywords
InitArgs == InitCall(KwargSets(MaxOpts))
NextArgs == SolveImage({FullHeader}, {SolvedText}, {{}})
SpecArgs == InitArgs /\ [][NextArgs]_vars

\* solve_image on any header
InitHdr == InitCall({MainKwargs})
NextHdr == SolveImage(AllHeaders, TextSamples, {{}})
SpecHdr == InitHdr /\ [][NextHdr]_vars

\* solve_image on any solver text
InitText == InitCall({MainKwargs})
NextText == SolveImage(HeaderSamples, Texts(ReportLines, MaxLines), {{}})
SpecText == InitText /\ [][NextText]_vars

----------------------------------------------------------------------------
(* Properties *)

Returned == pc = "ret" /\ ~test_file

HasLine(k) == \E i \in 1..Len(solver_out) : solver_out[i].k = k

ReportKeys == {"fov", "field_center", "arcsec_pp", "constellations", "stars", "ic", "ngc"}

\* the position in args.files of a record's file
Listed(f) == \E j \in 1..Len(solver_results) : solver_results[j]["file"] = f

\* C1: whenever the solver's text holds the line "Did not solve", the record
\* solve_image returns has solved = False and none of the parser's keys, and
\* the parser is never run on that text (no AttributeError), whatever else
\* the text holds.
C1_MarkerForcesUnsolved ==
    HasLine("marker") =>
        /\ exc # "AttributeError"
        /\ Returned => /\ solve_res["solved"] = FALSE
                       /\ DOMAIN solve_res \cap (ReportKeys \cup {"index"}) = {}

C1_Witness ==
    /\ Returned
    /\ HasLine("marker") /\ HasLine("size") /\ HasLine("center") /\ HasLine("scale")
    /\ solve_res["solved"] = FALSE

\* C2: when the solver ran and its text lacks a mandatory sentence (field
\* size, field center or pixel scale) and has no "Did not solve", solve_image
\* raises nothing and returns a record with solved = False.
C2_ParseFailureGivesUnsolved ==
    (/\ pc \in {"ret", "crashed"}
     /\ exc # "FileNotFoundError"
     /\ ~HasLine("marker")
     /\ ~(HasLine("size") /\ HasLine("center") /\ HasLine("scale")))
    => (pc = "ret" /\ exc = "none" /\ solve_res["solved"] = FALSE)

\* C3: no failure to start the solver or to read a file ends the batch: the
\* exception does not leave the loop over the files.
C3_FatalFailureContained ==
    ~(pc = "crashed" /\ exc \in {"FileNotFoundError", "OSError"})

\* C4 as claimed: the record of a processed file is in the collection if and
\* only if the verbosity count is at least 1 or the record is solved.
C4_KeptIffVerboseOrSolved ==
    (pc = "loop" /\ idx >= 1)
    => (Listed(files[idx]) <=> (verbose >= 1 \/ solve_res["solved"]))

\* C4 as amended: the record of a file solve_image returned is in the
\* collection if and only if the verbosity count is at least 2 or the record
\* is solved; below 2 every collected record is solved, from 2 on every
\* returned record is collected.
C4_KeptIffVeryVerboseOrSolved ==
    /\ (pc = "loop" /\ idx >= 1)
       => (Listed(files[idx]) <=> (verbose >= 2 \/ solve_res["solved"]))
    /\ verbose < 2 => \A j \in 1..Len(solver_results) : solver_results[j]["solved"]
    /\ (verbose >= 2 /\ pc \in {"loop", "write", "done"}) => Len(solver_results) = idx

C4_Witness ==
    /\ pc = "loop" /\ idx >= 1 /\ verbose = 1
    /\ solve_res["solved"] = FALSE
    /\ ~Listed(files[idx])

\* C5: once solve_image has cleaned up with save_temps false, its temporary
\* directory is gone.
C5_TempDirRemoved ==
    (pc \in {"reconcile", "ret"} /\ ~test_file /\ ~save_temps) => wd \notin DOMAIN tmpdirs

\* C6 as claimed: a returned record has hdr if and only if RA, DEC, OBJECT,
\* NAXIS1, NAXIS2, SECPIX1 and SECPIX2 are all in the header.
C6_HdrIffAllSevenKeys ==
    Returned => ("hdr" \in DOMAIN solve_res <=> HdrKeys \subseteq DOMAIN fits_header)

\* C6 as amended: a returned record has hdr if and only if RA, DEC, NAXIS1,
\* NAXIS2, SECPIX1 and SECPIX2 are all in the header; OBJECT is not needed,
\* and obj is the empty string when it is missing.
C6_HdrIffSixKeys ==
    Returned =>
        /\ "hdr" \in DOMAIN solve_res
             <=> (HdrKeys \ {"OBJECT"}) \subseteq DOMAIN fits_header
        /\ "hdr" \in DOMAIN solve_res =>
             /\ solve_res["hdr"].loc = [dec |-> fits_header["DEC"], ra |-> fits_header["RA"]]
             /\ solve_res["hdr"].obj.s =
                  (IF "OBJECT" \in DOMAIN fits_header THEN fits_header["OBJECT"].s ELSE <<>>)

C6_Witness ==
    /\ Returned
    /\ "OBJECT" \notin DOMAIN fits_header
    /\ "hdr" \in DOMAIN solve_res
    /\ solve_res["hdr"].fov = <<1111111, 833333>>

\* the number of arguments option j stands for: one for True, two otherwise
Tokens(v) == IF v = PyBool(TRUE) THEN 1 ELSE 2

RECURSIVE Offset(_, _)
\* the number of arguments before option j
Offset(kw, j) == IF j = 1 THEN 5 ELSE Offset(kw, j - 1) + Tokens(kw[j - 1].v)

FlagOk(flag, name) ==
    LET pre == IF Len(name) = 1 THEN 1 ELSE 2
    IN /\ Len(flag) = pre + Len(name)
       /\ \A i \in 1..pre : flag[i] = "-"
       /\ \A i \in 1..Len(name) : flag[pre + i] = (IF name[i] = "_" THEN "-" ELSE name[i])

RECURSIVE DigitsValue(_)
DigitsValue(d) ==
    IF d = <<>> THEN 0
    ELSE 10 * DigitsValue(SubSeq(d, 1, Len(d) - 1))
         + (CHOOSE n \in 0..9 : Digit(n) = d[Len(d)])

ValueOk(str, v) ==
    CASE v.t = "bool" -> str = <<"F", "a", "l", "s", "e">>
      [] v.t = "int" -> /\ Len(str) >= 1
                        /\ \A i \in 1..Len(str) : \E n \in 0..9 : Digit(n) = str[i]
                        /\ DigitsValue(str) = v.n
      [] OTHER -> str = v.s

\* C7: the argument vector is solve-field, --dir wd, --temp-dir wd, then for
\* each option in order its flag (underscores as dashes, one dash before a
\* one-character name and two otherwise), followed by the value's string
\* unless the value is True, and the image path last.
C7_ArgumentVector ==
    pc # "mkdtemp" =>
        LET n == Len(kwargs) IN
        /\ Len(solver_args) = Offset(kwargs, n + 1) + 1
        /\ SubSeq(solver_args, 1, 5) =
             <<SolveField, <<"-", "-", "d", "i", "r">>, wd,
               <<"-", "-", "t", "e", "m", "p", "-", "d", "i", "r">>, wd>>
        /\ solver_args[Len(solver_args)] = files[idx]
        /\ \A j \in 1..n :
             /\ FlagOk(solver_args[Offset(kwargs, j) + 1], kwargs[j].k)
             /\ Tokens(kwargs[j].v) = 2
                  => ValueOk(solver_args[Offset(kwargs, j) + 2], kwargs[j].v)

C7_Witness ==
    /\ pc = "header"
    /\ Len(kwargs) = 2
    /\ kwargs[1] = [k |-> <<"n", "o", "_", "p", "l", "o", "t", "s">>, v |-> PyBool(TRUE)]
    /\ kwargs[2] = [k |-> <<"L">>, v |-> PyInt(10)]
    /\ Len(solver_args) = 9

\* the position of a file name in args.files
Pos(f) == CHOOSE i \in 1..Len(files) : files[i] = f

\* C8: the solver is started at most once per file; nothing of a later file
\* exists while a file is being processed, and every earlier file has been
\* run; a file's record is collected only after its reconciliation; the
\* collection lists files in input order, none twice.
C8_SequentialInOrder ==
    /\ \A i \in 1..Len(files) : launched[i] <= 1
    /\ \A i \in 1..Len(files) :
         i > idx => /\ launched[i] = 0
                    /\ WdName(i) \notin DOMAIN tmpdirs
                    /\ ~Listed(files[i])
    /\ \A i \in 1..Len(files) : (i < idx /\ ~test_file) => launched[i] = 1
    /\ (idx >= 1 /\ Listed(files[idx])) => pc \in {"loop", "write", "done"}
    /\ \A j \in 1..Len(solver_results) : solver_results[j]["file"] \in {files[i] : i \in 1..Len(files)}
    /\ \A j, k \in 1..Len(solver_results) :
         j < k => Pos(solver_results[j]["file"]) < Pos(solver_results[k]["file"])
    /\ output.written => output.records = solver_results

C8_Witness ==
    /\ pc = "done"
    /\ Len(files) = 3
    /\ Len(output.records) = 2
    /\ output.records[1]["file"] = files[1]
    /\ output.records[2]["file"] = files[3]

\* C9: under --test-file no solver is started and no directory is made, and
\* a transcript that parse_buf accepts ends up in the collection without the
\* run crashing.
C9_TranscriptCollected ==
    test_file =>
        /\ \A i \in 1..Len(files) : launched[i] = 0
        /\ tmpdirs = EmptyDict
        /\ ("fov" \in DOMAIN solve_res /\ pc # "ret")
             => (pc # "crashed" /\ Listed(files[idx]))

\* C10: a returned record always has file, solve_time and solved; it has the
\* parser's fov, field_center, arcsec_pp, constellations, stars, ic and ngc
\* if and only if solved is true, and an unsolved record has nothing beyond
\* file, solve_time, solved, hdr and sources.
C10_ReportFieldsIffSolved ==
    Returned =>
        /\ {"file", "solve_time", "solved"} \subseteq DOMAIN solve_res
        /\ \A k \in ReportKeys : k \in DOMAIN solve_res <=> solve_res["solved"]
        /\ ~solve_res["solved"] =>
             DOMAIN solve_res \subseteq {"file", "solve_time", "solved", "hdr", "sources"}

C10_Witness ==
    /\ Returned
    /\ solve_res["solved"]
    /\ solve_res["fov"] = <<15, 12>>
    /\ solve_res["stars"] = <<>>
    /\ "sources" \in DOMAIN solve_res

====
